---------------------------- MODULE Spec2Model ----------------------------
(***************************************************************************)
(* Invoice lifecycle of wise_mcp: the exposed operation create_invoice     *)
(* (resources/invoice_creation.py) and the three WiseApiClient methods it  *)
(* drives (api/wise_client.py): create_empty_invoice (ALLOCATE),           *)
(* update_payment_request_v2 (POPULATE), publish_payment_request (PUBLISH).*)
(*                                                                         *)
(* Two specifications share the translation of create_invoice:             *)
(*   Spec              the whole program: every remote call is answered by *)
(*                     an HTTP response which the WiseApiClient method's   *)
(*                     own code turns into a return value or an exception; *)
(*   SpecOrchestrator  create_invoice alone, against the contract the      *)
(*                     client methods declare ("-> PaymentRequestV2",      *)
(*                     "Raises: Exception"): each call returns some        *)
(*                     PaymentRequestV2 or raises.                         *)
(* Python values: None is the string "None"; a dict key that is absent is  *)
(* the string "<absent>"; strings built by f-strings are sequences of      *)
(* their parts.                                                            *)
(***************************************************************************)
EXTENDS Integers, Sequences, FiniteSets, TLC

VARIABLES
  pc,              \* position of the invocation: "idle", "init", "await", "done"
  args,            \* the arguments create_invoice was called with
  calls,           \* remote calls issued so far, in order
  resps,           \* what each lifecycle call came back with, in order
  empty_invoice,   \* local of create_invoice (line 81)
  updated_invoice, \* local of create_invoice (line 140)
  invoice_number,  \* the parameter, rebound at line 93
  result,          \* what the invocation ended with
  due_date,        \* local of create_invoice (line 72)
  issue_date,      \* the parameter, rebound at line 76
  command,         \* payment_request: the command handed to update_payment_request_v2 (line 130)
  fund_type,       \* type: the parameter of fund_transfer
  response,        \* the answer to the funding call
  client_result    \* what a client method called on its own returned or raised

vars == <<pc, args, calls, resps, empty_invoice, updated_invoice, invoice_number, result,
          due_date, issue_date, command,
         fund_type, response, client_result>>

\* the variables of a client method called on its own
clientVars == <<fund_type, response, client_result>>

\* the variables of the exposed operations
invoiceVars == <<args, resps, empty_invoice, updated_invoice, invoice_number, result,
                 due_date, issue_date>>

---------------------------------------------------------------------------
(* Bounds and value sets *)

MaxItems == 1

None == "None"
Absent == "<absent>"

Range(s) == { s[i] : i \in DOMAIN s }

SeqsUpTo(S, n) == UNION { [1..k -> S] : k \in 0..n }

ProfileTypes == {"business", "BUSINESS", "personal", "sole_trader"}

BalanceIds == {None, "bal-7"}

InvoiceNumbers == {None, "", "INV-7"}

\* line_items entries: the keys create_invoice reads (amount, quantity, tax_name)
LineItemInputs == [amount : {-1, 5}, quantity : {0, 2}, tax_name : {None, "VAT"}]

\* due_days: a month, and the largest timedelta, which no date can take
DueDays == {30, 999999999}

IssueDates == {None, "2026-01-01T00:00:00.000Z"}

PayerNames == {None, "Acme"}

PayerEmails == {None, "pay@acme.example"}

PayerContactIds == {None, "contact-1"}

\* the calls of the model: every combination of profile, balance, line
\* items and invoice number with the other parameters fixed, and every
\* combination of due days, issue date and payer for one valid draft
Arguments ==
  [profile_type : ProfileTypes, balance_id : BalanceIds,
   line_items : SeqsUpTo(LineItemInputs, MaxItems), invoice_number : InvoiceNumbers,
   due_days : {30}, issue_date : {"2026-01-01T00:00:00.000Z"},
   payer_name : {None}, payer_email : {None}, payer_contact_id : {None}]
  \cup
  [profile_type : {"business"}, balance_id : {"bal-7"},
   line_items : {<<>>}, invoice_number : {None},
   due_days : DueDays, issue_date : IssueDates,
   payer_name : PayerNames, payer_email : PayerEmails, payer_contact_id : PayerContactIds]

NoArgs ==
  [profile_type |-> None, balance_id |-> None, line_items |-> <<>>, invoice_number |-> None,
   due_days |-> 0, issue_date |-> None,
   payer_name |-> None, payer_email |-> None, payer_contact_id |-> None]

\* datetime.now(): the reading of line 72, and the one of line 76, by which
\* the clock may have moved on
Clock == {"now-1", "now-2"}

\* a formatted timestamp: a clock reading (or a given date) plus a number of days
Timestamp(base, days) == <<base, days>>

NoTimestamp == <<None, 0>>

\* datetime.now() + timedelta(days=due_days) raises OverflowError past datetime.max
DateOverflows(days) == days >= 999999999

\* PayerV2, or None
PayerV2(contact_id, name, email, address) ==
  [isNone |-> FALSE, contact_id |-> contact_id, name |-> name, email |-> email, address |-> address]

NoPayer == [isNone |-> TRUE, contact_id |-> None, name |-> None, email |-> None, address |-> None]

PaymentRequestIds == {"pr-A", "pr-B"}

Statuses == {"DRAFT", "PUBLISHED"}

\* the "invoice" mapping of a payment request: None, or a dict whose
\* invoiceNumber is absent (None from .get), empty, or a number
Invoices ==
  { [isNone |-> TRUE, invoiceNumber |-> None],
    [isNone |-> FALSE, invoiceNumber |-> None],
    [isNone |-> FALSE, invoiceNumber |-> ""],
    [isNone |-> FALSE, invoiceNumber |-> "AUTO-1"] }

NoInvoice == [isNone |-> TRUE, invoiceNumber |-> None]

PaymentRequestV2 == [id : PaymentRequestIds, status : Statuses, invoice : Invoices, link : {None}]

NoPaymentRequest == [id |-> None, status |-> None, invoice |-> NoInvoice, link |-> None]

\* bool() of an Optional[str]
Truthy(s) == s \notin {None, ""}

\* str.lower() on the profile types of the model
Lower(s) == CASE s = "BUSINESS" -> "business" [] OTHER -> s

---------------------------------------------------------------------------
(* Exceptions and outcomes of a client method *)

NoException == [type |-> None, msg |-> <<>>]

Raise(type, msg) == [ok |-> FALSE, obj |-> NoPaymentRequest, exc |-> [type |-> type, msg |-> msg]]

Return(obj) == [ok |-> TRUE, obj |-> obj, exc |-> NoException]


---------------------------------------------------------------------------
(* api/types/payment_request.py and the response handling shared by the    *)
(* three client methods of api/wise_client.py                              *)

\* the fields of the Money dataclass: the keywords its __init__ accepts
MoneyFields == {"amount", "currency"}

\* Money(**kwargs): a dataclass __init__ raises TypeError on a keyword that
\* is not a field, or when a field without default is not given
MoneyInit(kwargs) == kwargs = MoneyFields

MoneyTypeError == <<"Money.__init__() got an unexpected keyword argument 'value'">>

\* a JSON body: which mandatory key it lacks (or "none"), and the payment
\* request its fields describe
Bodies == [missing : {"none", "id", "amount", "status"}, pr : PaymentRequestV2]

NoBody == [missing |-> "none", pr |-> NoPaymentRequest]

HttpStatuses == {200, 403, 500}

\* transport = TRUE: requests.post/put raised, there is no response
HttpResponses ==
  [transport : {FALSE}, status : HttpStatuses, json : BOOLEAN, body : Bodies]
    \cup {[transport |-> TRUE, status |-> 0, json |-> FALSE, body |-> NoBody]}

NoHttp == [transport |-> FALSE, status |-> 0, json |-> FALSE, body |-> NoBody]

\* _handle_error: always raises. With a JSON body, Exception("Wise API Error:
\* {error_data}"); without, error_data is unbound at the raise.
HandleError(r) ==
  IF r.json
    THEN Raise("Exception", <<"Wise API Error: ", "error_data">>)
    ELSE Raise("UnboundLocalError", <<"local variable 'error_data' referenced before assignment">>)

\* PaymentRequestV2(id=response_data["id"], amount=Money(value=..., currency=...), ...)
DecodePaymentRequest(body) ==
  IF body.missing = "id" THEN Raise("KeyError", <<"'id'">>)
  ELSE IF body.missing = "amount" THEN Raise("KeyError", <<"'amount'">>)
  ELSE IF ~MoneyInit({"value", "currency"}) THEN Raise("TypeError", MoneyTypeError)
  ELSE IF body.missing = "status" THEN Raise("KeyError", <<"'status'">>)
  ELSE Return(body.pr)

\* what a client method does with the outcome of requests.post/put
ClientResponse(r) ==
  IF r.transport THEN Raise("ConnectionError", <<"connection failed">>)
  ELSE IF r.status >= 400 THEN HandleError(r)
  ELSE IF ~r.json THEN Raise("JSONDecodeError", <<"Expecting value">>)
  ELSE DecodePaymentRequest(r.body)

\* the declared contract of a client method: a PaymentRequestV2, or one of
\* the exceptions its code can raise
ClientOutcomes ==
  { Return(p) : p \in PaymentRequestV2 }
    \cup { ClientResponse(r) : r \in { h \in HttpResponses : ~ClientResponse(h).ok } }

---------------------------------------------------------------------------
(* Remote calls *)

\* payload["payer"]: not added, or the dict of the truthy sub-fields
NoPayerField ==
  [present |-> FALSE, contactId |-> Absent, name |-> Absent, email |-> Absent, address |-> Absent]

NoPayload ==
  [requestType |-> Absent, selectedPaymentMethods |-> <<>>, balanceId |-> Absent,
   dueAt |-> NoTimestamp, issueDate |-> NoTimestamp,
   invoiceNumber |-> Absent, payer |-> NoPayerField, lineItems |-> <<>>, status |-> Absent]

\* init_wise_client looks the profile up
ListProfilesCall == [op |-> "LIST_PROFILES", target |-> None, payload |-> NoPayload]

\* create_empty_invoice: POST .../acquiring/payment-requests
AllocateCall(balance_id, due_at, issue) ==
  [op |-> "ALLOCATE", target |-> None,
   payload |-> [NoPayload EXCEPT !.requestType = "INVOICE", !.balanceId = balance_id,
                                 !.dueAt = due_at, !.issueDate = issue]]

\* the command built with an issue date read from the clock anew
PaymentRequestInvoiceCommandRefreshed(balance_id, due_at, number, payer, line_items, issue) ==
  [request_type |-> "INVOICE", selected_payment_methods |-> <<"ACCOUNT_DETAILS">>,
   balance_id |-> balance_id, due_at |-> due_at, invoice_number |-> number,
   payer |-> payer, line_items |-> line_items, issue_date |-> Timestamp("now-3", 0)]

\* PaymentRequestInvoiceCommand and its __post_init__
PaymentRequestInvoiceCommand(balance_id, due_at, number, payer, line_items, issue) ==
  [request_type |-> "INVOICE", selected_payment_methods |-> <<"ACCOUNT_DETAILS">>,
   balance_id |-> balance_id, due_at |-> due_at, invoice_number |-> number,
   payer |-> payer, line_items |-> line_items, issue_date |-> issue]

NoCommand == PaymentRequestInvoiceCommand(None, NoTimestamp, None, NoPayer, <<>>, NoTimestamp)

\* lines 529-539: if payment_request.payer: a dict of the truthy sub-fields
EncodePayer(payer) ==
  IF payer.isNone
    THEN NoPayerField
    ELSE [present |-> TRUE,
          contactId |-> IF Truthy(payer.contact_id) THEN payer.contact_id ELSE Absent,
          name |-> IF Truthy(payer.name) THEN payer.name ELSE Absent,
          email |-> IF Truthy(payer.email) THEN payer.email ELSE Absent,
          address |-> IF Truthy(payer.address) THEN payer.address ELSE Absent]

\* lines 543-557: one entry of payload["lineItems"]; the tax block only with a tax
EncodeLineItem(item) ==
  [amount |-> item.amount, quantity |-> item.quantity,
   tax |-> IF Truthy(item.tax_name) THEN item.tax_name ELSE Absent]

\* line 546 reads item.unit_price.value: AttributeError unless Money has that field
EncodeRaises(payment_request) ==
  payment_request.line_items # <<>> /\ "value" \notin MoneyFields

MoneyAttributeError == <<"'Money' object has no attribute 'value'">>

\* update_payment_request_v2: PUT .../payment-requests/{payment_request_id}
PopulateCall(payment_request_id, payment_request) ==
  [op |-> "POPULATE", target |-> payment_request_id,
   payload |->
     [requestType |-> payment_request.request_type,
      selectedPaymentMethods |-> payment_request.selected_payment_methods,
      balanceId |-> payment_request.balance_id,
      dueAt |-> payment_request.due_at,
      issueDate |-> payment_request.issue_date,
      invoiceNumber |-> IF Truthy(payment_request.invoice_number)
                          THEN payment_request.invoice_number ELSE Absent,
      payer |-> EncodePayer(payment_request.payer),
      lineItems |-> [i \in DOMAIN payment_request.line_items |->
                       EncodeLineItem(payment_request.line_items[i])],
      status |-> Absent]]

\* step 3 written as a second update instead of the publish
PublishCallAsUpdate(payment_request_id) ==
  [op |-> "POPULATE", target |-> payment_request_id,
   payload |-> [NoPayload EXCEPT !.status = "PUBLISHED"]]

\* publish_payment_request: PUT .../payment-requests/{payment_request_id}/status
PublishCall(payment_request_id) ==
  [op |-> "PUBLISH", target |-> payment_request_id,
   payload |-> [NoPayload EXCEPT !.status = "PUBLISHED"]]

LifecycleOps == {"ALLOCATE", "POPULATE", "PUBLISH"}

IsLifecycle(c) == c.op \in LifecycleOps

\* the lifecycle calls issued, in order
Lifecycle == SelectSeq(calls, IsLifecycle)


---------------------------------------------------------------------------
(* resources/invoice_creation.py: create_invoice *)

NoResult == [kind |-> "none", text |-> <<>>]

RejectionText ==
  <<"Error: Invoices are only available for business profiles. Personal profiles cannot create invoices.">>

\* only "personal" rejected, as get_balance_currencies does
IsNotPersonalProfile(profile_type) == Lower(profile_type) # "personal"

\* line 66: profile_type.lower() != "business" rejects
IsBusinessProfile(profile_type) == Lower(profile_type) = "business"

\* the auto-generated number adopted whenever there is one
ResolveInvoiceNumberAutoFirst(number, invoice) ==
  IF ~invoice.isNone /\ Truthy(invoice.invoiceNumber)
    THEN invoice.invoiceNumber
    ELSE number

\* lines 91-93: the auto-generated number is adopted only when the caller's
\* is falsy and invoice and its invoiceNumber are truthy
ResolveInvoiceNumber(number, invoice) ==
  IF ~Truthy(number) /\ ~invoice.isNone /\ Truthy(invoice.invoiceNumber)
    THEN invoice.invoiceNumber
    ELSE number

\* lines 95-102: a payer only when some payer argument is truthy
BuildPayer(payer_name, payer_email, payer_contact_id) ==
  IF Truthy(payer_name) \/ Truthy(payer_email) \/ Truthy(payer_contact_id)
    THEN PayerV2(payer_contact_id, payer_name, payer_email, None)
    ELSE NoPayer

\* lines 104-127: every item builds Money(value=..., currency=...)
ConvertLineItems(line_items) ==
  IF line_items # <<>> /\ ~MoneyInit({"value", "currency"})
    THEN [ok |-> FALSE, items |-> <<>>, exc |-> [type |-> "TypeError", msg |-> MoneyTypeError]]
    ELSE [ok |-> TRUE, items |-> line_items, exc |-> NoException]

\* a handler that issues the failed call again
ExceptHandlerRetry(exc) ==
  /\ pc' = "await"
  /\ result' = result
  /\ calls' = Append(calls, calls[Len(calls)])

\* lines 154-158: except Exception: the failure string, and the invocation ends
ExceptHandler(exc) ==
  /\ pc' = "done"
  /\ result' = [kind |-> "failed", text |-> <<"Failed to create invoice: ">> \o exc.msg]
  /\ calls' = calls

\* line 152: the success string
SuccessText(published_invoice) ==
  <<"Invoice created and published successfully! ID: ", published_invoice.id,
    ", Invoice Number: ",
    IF published_invoice.invoice.isNone THEN "N/A" ELSE published_invoice.invoice.invoiceNumber,
    ", Status: ", published_invoice.status,
    ", Link: ", IF Truthy(published_invoice.link) THEN published_invoice.link ELSE "N/A">>

\* lines 88-144: from create_empty_invoice's return to the PUT of step 2
AfterAllocate(obj) ==
  LET number == ResolveInvoiceNumber(invoice_number, obj.invoice)
      payer == BuildPayer(args.payer_name, args.payer_email, args.payer_contact_id)
      converted == ConvertLineItems(args.line_items)
      built == PaymentRequestInvoiceCommand(args.balance_id, due_date, number, payer,
                                            converted.items, issue_date)
  IN /\ empty_invoice' = obj
     /\ invoice_number' = number
     /\ UNCHANGED <<updated_invoice, due_date, issue_date>>
     /\ IF ~converted.ok
          THEN ExceptHandler(converted.exc) /\ UNCHANGED command
          ELSE /\ command' = built
               /\ IF EncodeRaises(built)
                    THEN ExceptHandler([type |-> "AttributeError", msg |-> MoneyAttributeError])
                    ELSE /\ calls' = Append(calls, PopulateCall(obj.id, built))
                         /\ pc' = "await"
                         /\ UNCHANGED result

\* lines 140-150: from update_payment_request_v2's return to the PUT of step 3
AfterPopulate(obj) ==
  /\ updated_invoice' = obj
  /\ calls' = Append(calls, PublishCall(obj.id))
  /\ pc' = "await"
  /\ UNCHANGED <<empty_invoice, invoice_number, result, due_date, issue_date, command>>

\* lines 147-152: publish_payment_request returned
AfterPublish(obj) ==
  /\ pc' = "done"
  /\ result' = [kind |-> "success", text |-> SuccessText(obj)]
  /\ UNCHANGED <<calls, empty_invoice, updated_invoice, invoice_number,
                 due_date, issue_date, command>>

\* the pending client method comes back with ret (answering HTTP response http)
Continue(ret, http) ==
  LET op == calls[Len(calls)].op
  IN /\ resps' = Append(resps, [op |-> op, ok |-> ret.ok, obj |-> ret.obj,
                                exc |-> ret.exc, http |-> http])
     /\ UNCHANGED <<args, fund_type, response, client_result>>
     /\ IF ~ret.ok
          THEN /\ ExceptHandler(ret.exc)
               /\ UNCHANGED <<empty_invoice, updated_invoice, invoice_number,
                              due_date, issue_date, command>>
          ELSE CASE op = "ALLOCATE" -> AfterAllocate(ret.obj)
                 [] op = "POPULATE" -> AfterPopulate(ret.obj)
                 [] OTHER -> AfterPublish(ret.obj)

---------------------------------------------------------------------------
(* api/wise_client.py: fund_transfer *)

PaymentTypes == {"BALANCE", "CARD", "balance"}

\* the check made on the upper-cased type
IsSupportedTypeAnyCase(t) == t \in {"BALANCE", "balance"}

\* line 238: only the exact string passes
IsSupportedType(t) == t = "BALANCE"

\* api/types/transfer.py: the two parts of a funding result
WiseFundResponse(t, status, error_code) ==
  [isNone |-> FALSE, type |-> t, status |-> status, error_code |-> error_code]

NoFundResponse == [isNone |-> TRUE, type |-> None, status |-> None, error_code |-> None]

WiseScaResponse(one_time_token) == [isNone |-> FALSE, one_time_token |-> one_time_token]

NoScaResponse == [isNone |-> TRUE, one_time_token |-> None]

\* WiseFundWithScaResponse(): both parts unset
WiseFundWithScaResponse == [fund_response |-> NoFundResponse, sca_response |-> NoScaResponse]

NoClientResult ==
  [kind |-> "none", funding |-> WiseFundWithScaResponse,
   payment_request |-> NoPaymentRequest, exc |-> NoException]

ClientRaises(exc) == [NoClientResult EXCEPT !.kind = "raised", !.exc = exc]

\* the JSON object of a funding answer; errorCode may be missing, null or a code
FundingBodies ==
  [type : {Absent, "BALANCE"}, status : {Absent, "COMPLETED"},
   errorCode : {Absent, None, "balance.insufficient_funds"}]

NoFundingBody == [type |-> Absent, status |-> Absent, errorCode |-> Absent]

\* what requests.post can come back with: status, the two approval headers,
\* and a body that is a JSON object or is not JSON
FundingResponses ==
  [transport : {FALSE}, status : HttpStatuses,
   approvalResult : {Absent, "REJECTED", "APPROVED"}, approval : {Absent, "tok_abc"},
   json : {TRUE}, body : FundingBodies]
  \cup
  [transport : {FALSE}, status : HttpStatuses,
   approvalResult : {Absent, "REJECTED", "APPROVED"}, approval : {Absent, "tok_abc"},
   json : {FALSE}, body : {NoFundingBody}]
  \cup
  {[transport |-> TRUE, status |-> 0, approvalResult |-> Absent, approval |-> Absent,
    json |-> FALSE, body |-> NoFundingBody]}

NoFundingResponse ==
  [transport |-> FALSE, status |-> 0, approvalResult |-> Absent, approval |-> Absent,
   json |-> FALSE, body |-> NoFundingBody]

\* dict.get(key, default)
Get(value, default) == IF value = Absent THEN default ELSE value

\* the challenge carrying the approval result instead of the token
ScaResponseOfResult(r) == WiseScaResponse(Get(r.approvalResult, None))

\* lines 253-255: the token is the x-2fa-approval header
ScaResponse(r) == WiseScaResponse(Get(r.approval, None))

\* the decoding with status and type exchanged
FundResponseSwapped(body) ==
  WiseFundResponse(Get(body.status, ""), Get(body.type, ""), Get(body.errorCode, None))

\* lines 263-267
FundResponse(body) ==
  WiseFundResponse(Get(body.type, ""), Get(body.status, ""), Get(body.errorCode, None))

\* lines 261-268: response.json() and the Funded result
DecodeFunding(r) ==
  IF ~r.json
    THEN ClientRaises([type |-> "JSONDecodeError", msg |-> <<"Expecting value">>])
    ELSE [NoClientResult EXCEPT !.kind = "returned",
                                !.funding.fund_response = FundResponse(r.body)]

\* the challenge branch without its return: the body is decoded as well
FundTransferNoEarlyReturn(r) ==
  IF r.transport
    THEN ClientRaises([type |-> "ConnectionError", msg |-> <<"connection failed">>])
  ELSE IF r.status = 403 /\ r.approvalResult = "REJECTED"
    THEN [DecodeFunding(r) EXCEPT !.funding.sca_response = ScaResponse(r)]
  ELSE IF r.status # 403 /\ r.status >= 400
    THEN ClientRaises(HandleError(r).exc)
  ELSE DecodeFunding(r)

\* lines 246-268: what fund_transfer does with the answer
FundTransferReturns(r) ==
  IF r.transport
    THEN ClientRaises([type |-> "ConnectionError", msg |-> <<"connection failed">>])
  ELSE IF r.status = 403
    THEN IF Get(r.approvalResult, None) = "REJECTED"
           THEN [NoClientResult EXCEPT !.kind = "returned",
                                       !.funding.sca_response = ScaResponse(r)]
           ELSE DecodeFunding(r)
  ELSE IF r.status >= 400
    THEN ClientRaises(HandleError(r).exc)
  ELSE DecodeFunding(r)

\* POST .../transfers/{transfer_id}/payments
FundCall(t) == [op |-> "FUND", target |-> None, payload |-> [type |-> t]]

---------------------------------------------------------------------------
(* Actions *)

Init ==
  /\ pc = "idle"
  /\ args = NoArgs
  /\ calls = <<>>
  /\ resps = <<>>
  /\ empty_invoice = NoPaymentRequest
  /\ updated_invoice = NoPaymentRequest
  /\ invoice_number = None
  /\ result = NoResult
  /\ due_date = NoTimestamp
  /\ issue_date = NoTimestamp
  /\ command = NoCommand
  /\ fund_type = None
  /\ response = NoFundingResponse
  /\ client_result = NoClientResult

\* create_invoice is called: lines 65-67
CreateInvoice ==
  /\ pc = "idle"
  /\ \E a \in Arguments :
       /\ args' = a
       /\ invoice_number' = a.invoice_number
       /\ IF ~IsBusinessProfile(a.profile_type)
            THEN pc' = "done" /\ result' = [kind |-> "rejected", text |-> RejectionText]
            ELSE pc' = "init" /\ UNCHANGED result
  /\ UNCHANGED <<calls, resps, empty_invoice, updated_invoice, due_date, issue_date, command, fund_type, response, client_result>>

\* line 69, outside the try: init_wise_client builds WiseApiClient (ValueError
\* without a token) and looks the profile up; an exception leaves
\* create_invoice. Then lines 71-86, also outside the try up to line 77: the
\* due date (OverflowError when out of range), the issue date defaulted from
\* a second clock reading, and the POST of step 1.
InitWiseClient ==
  /\ pc = "init"
  /\ \E outcome \in {"no_token", "lookup_failed", "ok"}, now \in Clock :
       LET due == Timestamp("now-1", args.due_days)
           issue == IF Truthy(args.issue_date)
                      THEN Timestamp(args.issue_date, 0) ELSE Timestamp(now, 0)
       IN CASE outcome = "no_token" ->
                 /\ pc' = "done"
                 /\ result' = [kind |-> "raised",
                               text |-> <<"WISE_API_TOKEN must be provided or set in the environment">>]
                 /\ UNCHANGED <<calls, due_date, issue_date>>
            [] outcome = "lookup_failed" ->
                 /\ pc' = "done"
                 /\ result' = [kind |-> "raised", text |-> <<"profile lookup failed">>]
                 /\ calls' = Append(calls, ListProfilesCall)
                 /\ UNCHANGED <<due_date, issue_date>>
            [] OTHER ->
                 IF DateOverflows(args.due_days)
                   THEN /\ pc' = "done"
                        /\ result' = [kind |-> "raised", text |-> <<"date value out of range">>]
                        /\ calls' = Append(calls, ListProfilesCall)
                        /\ UNCHANGED <<due_date, issue_date>>
                   ELSE /\ pc' = "await"
                        /\ due_date' = due
                        /\ issue_date' = issue
                        /\ calls' = calls \o <<ListProfilesCall,
                                                AllocateCall(args.balance_id, due, issue)>>
                        /\ UNCHANGED result
  /\ UNCHANGED <<args, resps, empty_invoice, updated_invoice, invoice_number, command, fund_type, response, client_result>>

\* whole program: the remote system answers the pending call (or the
\* transport fails) and the client method handles the answer
HttpRespond ==
  /\ pc = "await"
  /\ \E r \in HttpResponses : Continue(ClientResponse(r), r)

\* orchestrator alone: the pending client method returns or raises
ClientReturns ==
  /\ pc = "await"
  /\ \E o \in ClientOutcomes : Continue(o, NoHttp)

Next == CreateInvoice \/ InitWiseClient \/ HttpRespond

Spec == Init /\ [][Next]_vars

NextOrchestrator == CreateInvoice \/ InitWiseClient \/ ClientReturns

SpecOrchestrator == Init /\ [][NextOrchestrator]_vars


---------------------------------------------------------------------------
(* resources/invoice_creation.py: get_balance_currencies *)

WarningText ==
  <<"Warning: Invoices are only available for business profiles. Personal profiles cannot create invoices. Please use profile_type='business' instead.">>

\* line 180: profile_type.lower() == "personal" is turned away
IsPersonalProfile(profile_type) == Lower(profile_type) = "personal"

\* WiseApiClient.get_balance_currencies: GET .../currency-options
BalanceCurrenciesCall == [op |-> "BALANCE_CURRENCIES", target |-> None, payload |-> NoPayload]

\* the answer to the GET: "balances" missing or empty, a list of balances
\* with currency and id, or a list with an entry lacking one of them
CurrencyResponses ==
  [transport : {FALSE}, status : HttpStatuses, json : BOOLEAN,
   balances : {"empty", "listed", "malformed"}]
    \cup {[transport |-> TRUE, status |-> 0, json |-> FALSE, balances |-> "empty"]}

\* lines 185-199: what get_balance_currencies returns for an answer; every
\* exception of the client call and of the formatting is caught at line 198
BalanceCurrenciesResult(r) ==
  IF r.transport
    THEN [kind |-> "failed", text |-> <<"Failed to get balance currencies: ", "connection failed">>]
  ELSE IF r.status >= 400
    THEN [kind |-> "failed",
          text |-> <<"Failed to get balance currencies: ">> \o HandleError(r).exc.msg]
  ELSE IF ~r.json
    THEN [kind |-> "failed", text |-> <<"Failed to get balance currencies: ", "Expecting value">>]
  ELSE IF r.balances = "empty"
    THEN [kind |-> "no_balances", text |-> <<"No balances found for this profile.">>]
  ELSE IF r.balances = "malformed"
    THEN [kind |-> "failed", text |-> <<"Failed to get balance currencies: ", "'currency'">>]
  ELSE [kind |-> "listing",
        text |-> <<"Available balances for invoice creation (business profiles only):">>]

\* get_balance_currencies is called: lines 179-181
GetBalanceCurrencies ==
  /\ pc = "idle"
  /\ \E p \in ProfileTypes :
       /\ args' = [NoArgs EXCEPT !.profile_type = p]
       /\ IF IsPersonalProfile(p)
            THEN pc' = "gbc_done" /\ result' = [kind |-> "rejected", text |-> WarningText]
            ELSE pc' = "gbc_init" /\ UNCHANGED result
  /\ UNCHANGED <<calls, resps, empty_invoice, updated_invoice, invoice_number,
                 due_date, issue_date, command,
                 fund_type, response, client_result>>

\* line 183, outside the try: init_wise_client; an exception leaves
\* get_balance_currencies. Then line 187, up to the GET.
GbcInitWiseClient ==
  /\ pc = "gbc_init"
  /\ \E outcome \in {"no_token", "lookup_failed", "ok"} :
       CASE outcome = "no_token" ->
              /\ pc' = "gbc_done"
              /\ result' = [kind |-> "raised",
                            text |-> <<"WISE_API_TOKEN must be provided or set in the environment">>]
              /\ UNCHANGED calls
         [] outcome = "lookup_failed" ->
              /\ pc' = "gbc_done"
              /\ result' = [kind |-> "raised", text |-> <<"profile lookup failed">>]
              /\ calls' = Append(calls, ListProfilesCall)
         [] OTHER ->
              /\ pc' = "gbc_await"
              /\ calls' = calls \o <<ListProfilesCall, BalanceCurrenciesCall>>
              /\ UNCHANGED result
  /\ UNCHANGED <<args, resps, empty_invoice, updated_invoice, invoice_number,
                 due_date, issue_date, command,
                 fund_type, response, client_result>>

\* the remote system answers the GET (or the transport fails)
GbcRespond ==
  /\ pc = "gbc_await"
  /\ \E r \in CurrencyResponses :
       /\ pc' = "gbc_done"
       /\ result' = BalanceCurrenciesResult(r)
  /\ UNCHANGED <<args, calls, resps, empty_invoice, updated_invoice, invoice_number,
                 due_date, issue_date, command,
                 fund_type, response, client_result>>

\* the two exposed operations of resources/invoice_creation.py, whole program
NextExposed ==
  \/ CreateInvoice \/ InitWiseClient \/ HttpRespond
  \/ GetBalanceCurrencies \/ GbcInitWiseClient \/ GbcRespond

SpecExposed == Init /\ [][NextExposed]_vars

---------------------------------------------------------------------------
(* api/wise_client.py: client methods called on their own *)

\* fund_transfer is called: lines 238-246
FundTransfer ==
  /\ pc = "idle"
  /\ \E t \in PaymentTypes :
       /\ fund_type' = t
       /\ IF ~IsSupportedType(t)
            THEN /\ pc' = "fund_done"
                 /\ client_result' =
                      ClientRaises([type |-> "ValueError",
                                    msg |-> <<"Only 'BALANCE' payment type is supported for funding transfers.">>])
                 /\ UNCHANGED calls
            ELSE /\ pc' = "fund_await"
                 /\ calls' = Append(calls, FundCall(t))
                 /\ UNCHANGED client_result
  /\ UNCHANGED <<response, command>>
  /\ UNCHANGED invoiceVars

\* the remote system answers the funding call (or the transport fails)
FundRespond ==
  /\ pc = "fund_await"
  /\ \E r \in FundingResponses :
       /\ response' = r
       /\ client_result' = FundTransferReturns(r)
       /\ pc' = "fund_done"
  /\ UNCHANGED <<calls, fund_type, command>>
  /\ UNCHANGED invoiceVars

\* the payers a caller of the client can hand over: none, or a PayerV2 with
\* any of its fields set, PayerV2() with none set included
ClientPayers ==
  {NoPayer} \cup
  {PayerV2(c, n, e, a) :
     c \in PayerContactIds, n \in PayerNames, e \in PayerEmails, a \in {None, "address"}}

ClientCommands ==
  {PaymentRequestInvoiceCommand("bal-7", Timestamp("now-1", 30), n, p, items,
                                Timestamp("now-1", 0)) :
     n \in {None, "INV-7"}, p \in ClientPayers, items \in SeqsUpTo(LineItemInputs, MaxItems)}

\* update_payment_request_v2 is called: lines 511-562, up to requests.put
UpdatePaymentRequestV2 ==
  /\ pc = "idle"
  /\ \E payment_request_id \in PaymentRequestIds, cmd \in ClientCommands :
       /\ command' = cmd
       /\ IF EncodeRaises(cmd)
            THEN /\ pc' = "update_done"
                 /\ client_result' =
                      ClientRaises([type |-> "AttributeError", msg |-> MoneyAttributeError])
                 /\ UNCHANGED calls
            ELSE /\ pc' = "update_await"
                 /\ calls' = Append(calls, PopulateCall(payment_request_id, cmd))
                 /\ UNCHANGED client_result
  /\ UNCHANGED <<fund_type, response>>
  /\ UNCHANGED invoiceVars

\* the remote system answers the PUT: lines 564-590
UpdateRespond ==
  /\ pc = "update_await"
  /\ \E r \in HttpResponses :
       LET ret == ClientResponse(r)
       IN client_result' =
            IF ret.ok
              THEN [NoClientResult EXCEPT !.kind = "returned", !.payment_request = ret.obj]
              ELSE ClientRaises(ret.exc)
  /\ pc' = "update_done"
  /\ UNCHANGED <<calls, command, fund_type, response>>
  /\ UNCHANGED invoiceVars

\* the client methods fund_transfer and update_payment_request_v2, each
\* called by a caller of its own
NextClient == FundTransfer \/ FundRespond \/ UpdatePaymentRequestV2 \/ UpdateRespond

SpecClient == Init /\ [][NextClient]_vars

---------------------------------------------------------------------------
(* Properties *)

Last(s) == s[Len(s)]

LifecycleOrder == <<"ALLOCATE", "POPULATE", "PUBLISH">>

\* the draft satisfies the preconditions of the contract
ValidDraft(a) ==
  /\ a.balance_id # None
  /\ \A i \in DOMAIN a.line_items :
       a.line_items[i].quantity > 0 /\ a.line_items[i].amount >= 0

\* a success status with a JSON body that carries every mandatory field
FullSuccess(h) == ~h.transport /\ h.status < 400 /\ h.json /\ h.body.missing = "none"

\* the step whose failure ended the invocation
FailedStep == IF resps # <<>> /\ ~Last(resps).ok THEN Last(resps).op ELSE "NONE"

\* C1: the lifecycle calls issued form a prefix of ALLOCATE, POPULATE,
\* PUBLISH (so each at most once); at most one call is outstanding, and a
\* call is issued only when every earlier one has returned, successfully.
C1_CallsInFixedOrder ==
  /\ Len(Lifecycle) <= 3
  /\ \A i \in DOMAIN Lifecycle : Lifecycle[i].op = LifecycleOrder[i]
  /\ Len(Lifecycle) = Len(resps) + (IF pc = "await" THEN 1 ELSE 0)
  /\ \A i \in DOMAIN resps : i < Len(Lifecycle) => resps[i].ok

C1_Witness ==
  /\ pc = "done"
  /\ Len(Lifecycle) = 3
  /\ Len(resps) = 3
  /\ result.kind = "success"

\* C2: a failed step is the last call of the invocation: no call follows
\* it, and the invocation has ended with a failure result.
C2_FailureStopsFlow ==
  \A i \in DOMAIN resps :
    ~resps[i].ok =>
      /\ i = Len(resps)
      /\ Len(Lifecycle) = i
      /\ pc = "done"
      /\ result.kind = "failed"

C2_Witness ==
  /\ Len(resps) = 2
  /\ resps[1].ok
  /\ resps[2].op = "POPULATE"
  /\ ~resps[2].ok
  /\ Len(Lifecycle) = 2
  /\ result.kind = "failed"

\* C3: for a business profile and a valid draft, when every remote call is
\* answered with a success status and a body carrying all mandatory fields,
\* the invocation issues all three calls and returns the success result
\* decoded from PUBLISH's response.
C3_AllSuccessPublishes ==
  ( /\ pc = "done"
    /\ resps # <<>>
    /\ ValidDraft(args)
    /\ \A i \in DOMAIN resps : FullSuccess(resps[i].http) )
  => /\ result.kind = "success"
     /\ Len(Lifecycle) = 3
     /\ result.text = SuccessText(resps[3].http.body.pr)

\* C4: with a missing balance_id, a non-positive quantity or a negative
\* unit price, the invocation (once past client initialisation) issues no
\* lifecycle call and ends with a ValidationError.
C4_InvalidDraftIssuesNoCall ==
  ( /\ args.profile_type \in {"business", "BUSINESS"}
    /\ ~ValidDraft(args)
    /\ pc \in {"await", "done"}
    /\ result.kind # "raised" )
  => /\ Lifecycle = <<>>
     /\ pc = "done"
     /\ result.kind = "validation_error"

\* C5: a failure result names the step that failed.
C5_FailureNamesStep ==
  (pc = "done" /\ result.kind = "failed" /\ FailedStep # "NONE")
    => FailedStep \in Range(result.text)

\* C6: when ALLOCATE succeeded and a later step failed, the failure result
\* contains the draft id ALLOCATE returned.
C6_FailureCarriesDraftId ==
  (pc = "done" /\ result.kind = "failed" /\ Len(resps) >= 2 /\ ~Last(resps).ok)
    => resps[1].obj.id \in Range(result.text)

\* C7: POPULATE and PUBLISH are both addressed with the id ALLOCATE returned.
C7_AddressedByAllocatedId ==
  \A i \in DOMAIN calls :
    calls[i].op \in {"POPULATE", "PUBLISH"} => calls[i].target = resps[1].obj.id

\* C8: success is reported only when the payment request PUBLISH returned
\* has status PUBLISHED.
C8_SuccessMeansPublished ==
  result.kind = "success" => Last(resps).obj.status = "PUBLISHED"

\* C9: the invoiceNumber of the POPULATE payload is the caller's
\* invoice_number when the caller gave a (non-empty) one; otherwise the
\* (non-empty) invoiceNumber of the invoice mapping ALLOCATE returned;
\* otherwise the payload has no invoiceNumber.
C9_PopulateInvoiceNumber ==
  \A i \in DOMAIN calls :
    calls[i].op = "POPULATE" =>
      calls[i].payload.invoiceNumber =
        IF args.invoice_number \notin {None, ""}
          THEN args.invoice_number
          ELSE IF ~resps[1].obj.invoice.isNone
                    /\ resps[1].obj.invoice.invoiceNumber \notin {None, ""}
                 THEN resps[1].obj.invoice.invoiceNumber
                 ELSE Absent

C9_Witness ==
  /\ Len(calls) >= 3
  /\ calls[3].op = "POPULATE"
  /\ args.invoice_number = "INV-7"
  /\ resps[1].obj.invoice.invoiceNumber = "AUTO-1"
  /\ calls[3].payload.invoiceNumber = "INV-7"

\* C10: a profile_type that is not business, whatever its case, ends the
\* invocation with the rejection string: no exception, no remote call, not
\* even the one of client initialisation.
C10_NonBusinessRejected ==
  (args # NoArgs /\ args.profile_type \notin {"business", "BUSINESS"})
    => /\ pc = "done"
       /\ result = [kind |-> "rejected", text |-> RejectionText]
       /\ calls = <<>>

C10_Witness ==
  /\ args.profile_type = "personal"
  /\ pc = "done"
  /\ result.kind = "rejected"
  /\ calls = <<>>


\* C19: the balanceId, dueAt and issueDate of the POPULATE payload are those
\* of the ALLOCATE payload of the same invocation.
C19_PopulateKeepsAllocateDates ==
  \A i, j \in DOMAIN calls :
    (calls[i].op = "ALLOCATE" /\ calls[j].op = "POPULATE") =>
      /\ calls[j].payload.balanceId = calls[i].payload.balanceId
      /\ calls[j].payload.dueAt = calls[i].payload.dueAt
      /\ calls[j].payload.issueDate = calls[i].payload.issueDate

C19_Witness ==
  /\ Len(calls) >= 3
  /\ calls[3].op = "POPULATE"
  /\ args.issue_date = None
  /\ calls[3].payload.issueDate = Timestamp("now-2", 0)
  /\ calls[3].payload.dueAt = Timestamp("now-1", 30)
  /\ calls[2].payload.issueDate = Timestamp("now-2", 0)


\* C11: get_balance_currencies lets through exactly the profile types
\* create_invoice lets through: a profile_type that is not business ends
\* with the rejection string and no remote call, a business one is not
\* rejected.
C11_SameBusinessOnlyRestriction ==
  pc \in {"gbc_init", "gbc_await", "gbc_done"} =>
    IF args.profile_type \in {"business", "BUSINESS"}
      THEN result.kind # "rejected"
      ELSE pc = "gbc_done" /\ result.kind = "rejected" /\ calls = <<>>

\* C18: create_invoice and get_balance_currencies end by returning a
\* string, whatever failed: no exception leaves them.
C18_FailuresReturnedAsStrings ==
  pc \in {"done", "gbc_done"} => result.kind # "raised"


\* C12: a type other than exactly "BALANCE" ends fund_transfer with the
\* ValueError and without a remote call; a funding call is issued only for
\* "BALANCE".
C12_OnlyBalanceIsFunded ==
  /\ (pc = "fund_done" /\ fund_type # "BALANCE") =>
       /\ client_result.kind = "raised"
       /\ client_result.exc.type = "ValueError"
       /\ calls = <<>>
  /\ \A i \in DOMAIN calls : calls[i].op = "FUND" => calls[i].payload.type = "BALANCE"

C12_Witness ==
  /\ pc = "fund_done"
  /\ fund_type = "balance"
  /\ client_result.exc.type = "ValueError"
  /\ calls = <<>>


\* C13: a funding answer with status 403 and x-2fa-approval-result equal to
\* "REJECTED" makes fund_transfer return the challenge whose one_time_token
\* is the x-2fa-approval header, whatever the body is.
C13_ChallengeCarriesApprovalToken ==
  (pc = "fund_done" /\ fund_type = "BALANCE" /\ ~response.transport
     /\ response.status = 403 /\ response.approvalResult = "REJECTED") =>
    /\ client_result.kind = "returned"
    /\ ~client_result.funding.sca_response.isNone
    /\ client_result.funding.sca_response.one_time_token =
         (IF response.approval = Absent THEN None ELSE response.approval)

C13_Witness ==
  /\ pc = "fund_done"
  /\ response.status = 403
  /\ response.approvalResult = "REJECTED"
  /\ response.approval = "tok_abc"
  /\ ~response.json
  /\ client_result.kind = "returned"
  /\ client_result.funding.sca_response.one_time_token = "tok_abc"

\* C14: a funding answer with status >= 400 that is not the challenge case
\* ends fund_transfer with an error, never with a result.
C14_ErrorStatusNeverReturns ==
  (pc = "fund_done" /\ fund_type = "BALANCE" /\ ~response.transport
     /\ response.status >= 400
     /\ ~(response.status = 403 /\ response.approvalResult = "REJECTED")) =>
    client_result.kind = "raised"

\* C15 as stated: every funding answer with a 2xx status makes fund_transfer
\* return Funded with the body's type, status and errorCode.
C15_Every2xxIsFunded ==
  (pc = "fund_done" /\ fund_type = "BALANCE" /\ ~response.transport
     /\ response.status \in 200..299) =>
    /\ client_result.kind = "returned"
    /\ ~client_result.funding.fund_response.isNone

\* C15: a funding answer with a 2xx status and a JSON object as body makes
\* fund_transfer return Funded with the body's type and status (the empty
\* string when missing) and errorCode (unset when missing or null), a
\* non-null errorCode included.
C15_JsonObject2xxIsFunded ==
  (pc = "fund_done" /\ fund_type = "BALANCE" /\ ~response.transport
     /\ response.status \in 200..299 /\ response.json) =>
    /\ client_result.kind = "returned"
    /\ client_result.funding.fund_response =
         [isNone |-> FALSE,
          type |-> IF response.body.type = Absent THEN "" ELSE response.body.type,
          status |-> IF response.body.status = Absent THEN "" ELSE response.body.status,
          error_code |-> IF response.body.errorCode \in {Absent, None}
                           THEN None ELSE response.body.errorCode]

C15_Witness ==
  /\ pc = "fund_done"
  /\ response.status = 200
  /\ response.json
  /\ response.body.type = "BALANCE"
  /\ response.body.errorCode = "balance.insufficient_funds"
  /\ client_result.kind = "returned"
  /\ client_result.funding.fund_response.error_code = "balance.insufficient_funds"
  /\ client_result.funding.fund_response.status = "COMPLETED"

\* C16: a result returned by fund_transfer has exactly one of fund_response
\* and sca_response set.
C16_ExactlyOneVariant ==
  (pc = "fund_done" /\ client_result.kind = "returned") =>
    (client_result.funding.fund_response.isNone # client_result.funding.sca_response.isNone)

C16_Witness ==
  /\ pc = "fund_done"
  /\ client_result.kind = "returned"
  /\ response.status = 403
  /\ response.json
  /\ response.body.type = "BALANCE"
  /\ ~client_result.funding.sca_response.isNone
  /\ client_result.funding.fund_response.isNone

\* C17: the payload of update_payment_request_v2 has a payer only when a
\* sub-field of the command's payer is set, and then only the set
\* sub-fields; a line item's entry has a tax block only when the item has a
\* tax.
C17_PayerOnlyWhenSubFieldSet ==
  \A i \in DOMAIN calls :
    calls[i].op = "POPULATE" =>
      LET sent == calls[i].payload.payer
          payer == command.payer
      IN /\ sent.present =>
              /\ ~payer.isNone
              /\ \/ Truthy(payer.contact_id) \/ Truthy(payer.name)
                 \/ Truthy(payer.email) \/ Truthy(payer.address)
         /\ sent.contactId # Absent => Truthy(payer.contact_id)
         /\ sent.name # Absent => Truthy(payer.name)
         /\ sent.email # Absent => Truthy(payer.email)
         /\ sent.address # Absent => Truthy(payer.address)
         /\ \A k \in DOMAIN calls[i].payload.lineItems :
              calls[i].payload.lineItems[k].tax # Absent =>
                Truthy(command.line_items[k].tax_name)

=============================================================================
